---------------------------- MODULE Spec2Model ----------------------------
(***************************************************************************)
(* A model of the ore.supply bot (zosyyy/oremax): the bet tracker          *)
(* (betData, the onLogs handler, pollRoundAccount), the bid estimator      *)
(* (calculateTopBet, calculateMedianBet, calculateOurBet), the main loop   *)
(* and the transactions it sends (deploy, claimRewards, checkpoint, close  *)
(* automation, and the transfers made at startup).                         *)
(*                                                                         *)
(* Amounts.  The code works in JavaScript doubles; the model works in      *)
(* exact rationals, written as integers of 1/Q mSOL ("quanta").  A ledger  *)
(* amount is an integer number of "units" of 10^6 lamports (1 mSOL), so    *)
(* Number(x) / 1e9 is x * Q quanta and Number(x) / 1e11 is x * Q / 100.    *)
(* Q is chosen so that every division the code makes is exact.             *)
(***************************************************************************)
EXTENDS Integers, Sequences, FiniteSets, TLC

(***************************************************************************)
(* Bounds of the model                                                     *)
(***************************************************************************)
\* squares of a round that are modelled (the program has 25)
NumSquares == 2
\* round ids the ledger goes through: 1..MaxRound
MaxRound == 2
\* entries betData.allBets may hold before the producers stop recording
MaxSamples == 2
\* players per square, and the largest total of a square in units
MaxPlayers == 2
\* log lines of one notification
MaxLogLines == 2

Squares == 0 .. (NumSquares - 1)
Rounds  == 1 .. MaxRound

(***************************************************************************)
(* Arithmetic helpers                                                      *)
(***************************************************************************)
Max(a, b) == IF a >= b THEN a ELSE b
Min(a, b) == IF a <= b THEN a ELSE b

RECURSIVE Gcd(_, _)
Gcd(a, b) == IF b = 0 THEN a ELSE Gcd(b, a % b)

RECURSIVE LcmUpTo(_)
LcmUpTo(n) == IF n <= 1 THEN 1 ELSE (LcmUpTo(n - 1) * n) \div Gcd(LcmUpTo(n - 1), n)

\* quanta per mSOL: divisible by 100 (the 1e11 divisor), by 100 again (the
\* buffer percent), by every player count (the averages) and by 2 (the median)
Q == 10000 * 2 * LcmUpTo(MaxPlayers)

\* Number(x) / 1e9 for a ledger amount of x units
ToSol(x) == x * Q
\* Number(x) / 1e11 for a ledger amount of x units
ToOreScale(x) == (x * Q) \div 100

RECURSIVE SeqMax(_)
SeqMax(s) ==
    IF s = <<>> THEN 0
    ELSE IF Len(s) = 1 THEN s[1] ELSE Max(Head(s), SeqMax(Tail(s)))

\* s with its first occurrence of x removed
RECURSIVE RemoveOne(_, _)
RemoveOne(s, x) ==
    IF s = <<>> THEN <<>>
    ELSE IF Head(s) = x THEN Tail(s) ELSE <<Head(s)>> \o RemoveOne(Tail(s), x)

\* [...s].sort((a, b) => b - a)
RECURSIVE SortDesc(_)
SortDesc(s) ==
    IF s = <<>> THEN <<>>
    ELSE LET m == SeqMax(s) IN <<m>> \o SortDesc(RemoveOne(s, m))

RECURSIVE Reverse(_)
Reverse(s) == IF s = <<>> THEN <<>> ELSE Reverse(Tail(s)) \o <<Head(s)>>

\* s.sort((a, b) => a - b)
SortAsc(s) == Reverse(SortDesc(s))

(***************************************************************************)
(* config (betTracker.ts 1182-1212).  The record is read, never written.   *)
(***************************************************************************)
\* BUFFER_PERCENT, default 10
DefaultBufferPercent == 10
\* SNIPE_WINDOW_SECONDS, default 10
DefaultSnipeWindowSeconds == 10
\* MIN_WALLET_BALANCE, default 0.1 SOL, in mSOL
DefaultMinWalletBalance == 100

DefaultConfig ==
    [ bettingStrategy    |-> "max",
      bufferPercent      |-> DefaultBufferPercent,
      maxBetPerSquare    |-> 2 * Q,            \* 0.002 SOL
      minBetPerSquare    |-> Q \div 10,        \* 0.0001 SOL, the default
      snipeWindowSeconds |-> DefaultSnipeWindowSeconds,
      claimEveryRound    |-> TRUE,
      minClaimableSol    |-> 2 * Q,            \* 0.002 SOL
      minClaimableOre    |-> 2 * (Q \div 100), \* 2 reward units of ORE
      autoSwapOre        |-> TRUE,
      dryRun             |-> FALSE,
      minWalletBalance   |-> DefaultMinWalletBalance * Q ]

\* the configurations the scheduler is run under
Configs ==
    { [DefaultConfig EXCEPT !.bettingStrategy = s, !.dryRun = d] :
        s \in {"max", "median"}, d \in BOOLEAN }

VARIABLES
    config,
    \* -------- the ledger (the remote program's accounts) --------
    boardRound,        \* Board.roundId
    slotsToEnd,        \* Board.endSlot - current slot, or NotStarted
    deployed,          \* Round.deployed[i] of the current round, in units
    count,             \* Round.count[i] of the current round
    miner,             \* the Miner account, or Absent
    closedRound,       \* the Round account of round boardRound - 1
    automation,        \* whether an Automation account exists
    balance,           \* the wallet's SOL, in mSOL
    others,            \* how many other players deploy to a round
    \* -------- betTracker.ts module state --------
    currentRoundId,
    betData,           \* [maxBetPerSquare, totalBets, allBets]
    lastSeenDeployed,
    subscriptionId,    \* "null" or "sub"
    pollingInterval,   \* "null" or "timer"
    listeners,         \* onLogs listeners registered on the connection
    timers,            \* intervals set and not cleared
    \* -------- promises pending in the tracker --------
    pollFetch,         \* the round id pollRoundAccount awaits fetchRound for
    baselineFetch,     \* the round id the baseline .then awaits fetchRound for
    handler,           \* the onLogs handler suspended in fetchBettorAddress
    \* -------- main() --------
    pc,
    lastRoundId,
    hasDeployedThisRound,
    secondsRemaining,  \* in tenths of a second
    betPerSquare,
    exitCode,          \* None while running, Some(code) once exited
    inFlight,          \* whether deploy awaits sendAndConfirm (line 522)
    \* -------- the SIGINT handler (betTracker.ts 312-328) --------
    isRunning,
    isShuttingDown,
    shutdown,          \* "idle", or "unsubscribing": suspended at line 214
    \* -------- history (not state of the program) --------
    sampleTags,        \* for each entry of allBets: its square and its round
    lastTx,            \* the transaction the last step of main sent
    bidAttempts,       \* per round id seen by main: calls of deploy
    hist               \* facts about the run the claims speak of

ledgerVars  == <<boardRound, slotsToEnd, deployed, count, closedRound, miner,
                 automation, balance, others>>
trackerVars == <<currentRoundId, betData, lastSeenDeployed, subscriptionId,
                 pollingInterval, listeners, timers, pollFetch, baselineFetch,
                 handler, sampleTags>>
mainVars    == <<pc, lastRoundId, hasDeployedThisRound, secondsRemaining,
                 betPerSquare, exitCode>>
registered  == <<listeners, timers>>
shutdownVars == <<isRunning, isShuttingDown, shutdown>>
histVars    == <<lastTx, bidAttempts, hist>>
vars == <<config, ledgerVars, trackerVars, mainVars, inFlight, shutdownVars,
          histVars>>

\* an account that does not exist (fetchMiner returns null)
Absent == [exists |-> FALSE, checkpointId |-> 0, roundId |-> 0, rewardsSol |-> 0,
           rewardsOre |-> 0]
\* Board.endSlot = u64::MAX: slotsToEnd is <<>>, and <<n>> once the round runs
NotStarted == <<>>
\* an option is <<>> or <<value>>
None == <<>>
Some(v) == <<v>>
Get(o) == o[1]
NotFound == <<>>

(***************************************************************************)
(* accounts.ts (betTracker.ts 1059-1097): fetchRound                       *)
(***************************************************************************)
RECURSIVE SumUpTo(_, _)
SumUpTo(f, n) == IF n < 0 THEN 0 ELSE f[n] + SumUpTo(f, n - 1)

RoundOf(d, c) ==
    [deployed |-> d, count |-> c, totalDeployed |-> SumUpTo(d, NumSquares - 1)]

ZeroSquares == [i \in Squares |-> 0]

\* the Round account of round id r as the ledger holds it when the reply is
\* made; the account of a round that is not open yet does not exist
\* (fetchRound throws)
RoundAccount(r) ==
    IF r = boardRound THEN Some(RoundOf(deployed, count))
    ELSE IF r = boardRound - 1 /\ r >= 1 THEN Some(closedRound)
    ELSE NotFound

(***************************************************************************)
(* betTracker.ts 53-277: the observation store                             *)
(***************************************************************************)
EmptyBetData ==
    [maxBetPerSquare |-> ZeroSquares, totalBets |-> 0, allBets |-> <<>>]

RECURSIVE FnMax(_, _)
FnMax(f, n) == IF n < 0 THEN 0 ELSE Max(f[n], FnMax(f, n - 1))

\* Math.max(...betData.maxBetPerSquare)
getMaxBet == FnMax(betData.maxBetPerSquare, NumSquares - 1)

hasBetData == betData.totalBets > 0

\* a faulty rank that sorts in ascending order
getNthHighestBetAscending(n) ==
    IF Len(betData.allBets) = 0 THEN 0
    ELSE LET sortedBets == SortAsc(betData.allBets)
             index == Min(n, Len(sortedBets) - 1)
         IN  sortedBets[index + 1]
\* getNthHighestBet, lines 266-277
getNthHighestBet(n) ==
    IF Len(betData.allBets) = 0 THEN 0
    ELSE LET sortedBets == SortDesc(betData.allBets)
             index == Min(n, Len(sortedBets) - 1)
         IN  sortedBets[index + 1]

\* one entry of the history kept beside allBets: the squares the sample
\* applies to (one for a poll sample, all for an event sample) and the round
\* the observation was made in
Tag(sqs, src) == [sqs |-> sqs, src |-> src]

\* a faulty loop that records every change of a total, also a decrease
RECURSIVE PollLoopAnyChange(_, _, _, _)
PollLoopAnyChange(st, round, src, i) ==
    IF i >= NumSquares THEN st
    ELSE LET currentDeployed == round.deployed[i]
             lastSeen == st.seen[i]
             increaseSol == ToOreScale(currentDeployed - lastSeen)
         IN  IF currentDeployed # lastSeen
             THEN PollLoopAnyChange(
                    [bd |-> [st.bd EXCEPT
                               !.maxBetPerSquare[i] =
                                   IF increaseSol > @ THEN increaseSol ELSE @,
                               !.allBets = Append(@, increaseSol)],
                     seen |-> [st.seen EXCEPT ![i] = currentDeployed],
                     tags |-> Append(st.tags, Tag({i}, src))],
                    round, src, i + 1)
             ELSE PollLoopAnyChange(st, round, src, i + 1)

\* pollRoundAccount, lines 78-101, for squares i..NumSquares-1: st is
\* [bd, seen, tags], round the fetched account, src the round asked for
RECURSIVE PollLoop(_, _, _, _)
PollLoop(st, round, src, i) ==
    IF i >= NumSquares THEN st
    ELSE LET currentDeployed == round.deployed[i]
             lastSeen == st.seen[i]
             increaseSol == ToOreScale(currentDeployed - lastSeen)
         IN  IF currentDeployed > lastSeen
             THEN PollLoop(
                    [bd |-> [st.bd EXCEPT
                               !.maxBetPerSquare[i] =
                                   IF increaseSol > @ THEN increaseSol ELSE @,
                               !.allBets = Append(@, increaseSol)],
                     seen |-> [st.seen EXCEPT ![i] = currentDeployed],
                     tags |-> Append(st.tags, Tag({i}, src))],
                    round, src, i + 1)
             ELSE PollLoop(st, round, src, i + 1)

\* squares whose fetched total is above the cursor
Increases(round) == {i \in Squares : round.deployed[i] > lastSeenDeployed[i]}

\* onLogs handler, lines 152-180: the patterns are tried in order on one log
\* line; a line is given as the amounts (in mSOL) its matching patterns
\* capture, in pattern order; an amount <= 0 moves on to the next pattern
RECURSIVE LineAmount(_)
LineAmount(line) ==
    IF line = <<>> THEN 0
    ELSE IF Head(line) <= 0 THEN LineAmount(Tail(line)) ELSE Head(line)

\* lines 142-181 up to the first await: the lines are scanned until one
\* records a sample; the handler then awaits fetchBettorAddress with the
\* remaining lines still to do
RECURSIVE ScanLines(_)
ScanLines(lines) ==
    IF lines = <<>> THEN [amount |-> 0, rest |-> <<>>]
    ELSE LET a == LineAmount(Head(lines))
         IN  IF a > 0 THEN [amount |-> a, rest |-> Tail(lines)]
             ELSE ScanLines(Tail(lines))

\* a faulty recording that overwrites the maxima instead of raising them
RecordEventOverwrite(bd, amountSol) ==
    [maxBetPerSquare |-> [i \in Squares |-> amountSol],
     totalBets |-> bd.totalBets + 1,
     allBets |-> Append(bd.allBets, amountSol)]
\* lines 159-167
RecordEvent(bd, amountSol) ==
    [maxBetPerSquare |->
         [i \in Squares |-> IF amountSol > bd.maxBetPerSquare[i]
                            THEN amountSol ELSE bd.maxBetPerSquare[i]],
     totalBets |-> bd.totalBets + 1,
     allBets |-> Append(bd.allBets, amountSol)]

\* the handler run on `lines` for a notification observed in round src
RunHandler(lines, src) ==
    LET r == ScanLines(lines)
    IN  IF r.amount > 0
        THEN /\ betData' = RecordEvent(betData, ToSol(r.amount))
             /\ sampleTags' = Append(sampleTags, Tag(Squares, src))
             /\ handler' = IF r.rest = <<>> THEN None
                           ELSE Some([lines |-> r.rest, src |-> src])
        ELSE /\ handler' = None
             /\ UNCHANGED <<betData, sampleTags>>

\* log lines: one that matches no pattern, one whose first match captures 0
\* and whose second captures 1 mSOL, one whose first match captures 2 mSOL
LogLines == {<<>>, <<0, 1>>, <<2>>}

RECURSIVE SeqsUpTo(_, _)
SeqsUpTo(S, n) ==
    IF n = 0 THEN {<<>>}
    ELSE LET shorter == SeqsUpTo(S, n - 1)
         IN  shorter \cup {Append(q, x) : q \in shorter, x \in S}

Notifications == SeqsUpTo(LogLines, MaxLogLines) \ {<<>>}

\* parseFloat (line 155) of a digit string too long for a double gives
\* Infinity, which is not NaN and not <= 0; it is modelled as an amount, in
\* mSOL, above every other amount of the model
Infinity == 1000
\* every kind of text the patterns can capture: besides LogLines, a line
\* whose only match captures 0 and one whose match captures an overflowing
\* digit string
ParsedLines == LogLines \cup {<<0>>, <<Infinity>>}
ParsedNotifications == SeqsUpTo(ParsedLines, MaxLogLines) \ {<<>>}

\* lines 219-222: the interval, if there is one, is cleared
clearInterval == IF pollingInterval # "null" THEN timers - 1 ELSE timers

\* a faulty guard that lets every call subscribe again
alreadySubscribedIgnored == FALSE
\* lines 125-128: no second subscription while one exists
alreadySubscribed == subscriptionId # "null"

\* startBetTracking, lines 110-206
startBetTracking(roundId) ==
    /\ IF roundId # currentRoundId
       THEN /\ currentRoundId' = roundId
            /\ betData' = EmptyBetData
            /\ sampleTags' = <<>>
       ELSE UNCHANGED <<currentRoundId, betData, sampleTags>>
    /\ IF alreadySubscribed
       THEN /\ lastSeenDeployed' =
                   IF roundId # currentRoundId THEN ZeroSquares
                   ELSE lastSeenDeployed
            /\ UNCHANGED <<subscriptionId, baselineFetch, pollingInterval,
                           registered>>
       ELSE /\ subscriptionId' = "sub"
            /\ lastSeenDeployed' =
                   IF roundId # currentRoundId THEN ZeroSquares
                   ELSE lastSeenDeployed
            /\ baselineFetch' = Some(roundId)
            /\ pollingInterval' = "timer"
            /\ listeners' = listeners + 1
            /\ timers' = timers + 1
    /\ UNCHANGED <<pollFetch, handler>>

(***************************************************************************)
(* The tracker's callbacks                                                 *)
(***************************************************************************)
\* setInterval callback, line 201-203, up to the await of line 75
\* a catch block that drops what the tracker holds
PollCatchReset(st) ==
    [st EXCEPT !.bd = EmptyBetData, !.seen = [i \in Squares |-> 0]]

\* lines 102-104: the catch block of pollRoundAccount is empty; fetchRound
\* throws before the loop of line 79, so the try block has changed nothing
PollCatch(st) == st

PollTick ==
    /\ exitCode = None
    /\ pollingInterval = "timer"
    /\ pollFetch = None
    /\ pollFetch' = Some(currentRoundId)
    /\ hist' = [hist EXCEPT !.pollFailed = FALSE]
    /\ UNCHANGED <<config, shutdownVars, inFlight, ledgerVars, mainVars, lastTx,
                   bidAttempts, currentRoundId, betData, lastSeenDeployed,
                   subscriptionId, pollingInterval, registered, baselineFetch, handler,
                   sampleTags>>

\* pollRoundAccount from line 75 on: the reply arrives, or the fetch throws
PollReply ==
    /\ exitCode = None
    /\ pollFetch # None
    /\ pollFetch' = None
    /\ \E ok \in BOOLEAN :
         IF ok /\ RoundAccount(Get(pollFetch)) # NotFound
         THEN /\ Len(betData.allBets)
                    + Cardinality(Increases(Get(RoundAccount(Get(pollFetch)))))
                    <= MaxSamples
              /\ LET st == PollLoop([bd |-> betData, seen |-> lastSeenDeployed,
                                     tags |-> sampleTags],
                                    Get(RoundAccount(Get(pollFetch))),
                                    Get(pollFetch), 0)
                 IN  /\ betData' = st.bd
                     /\ lastSeenDeployed' = st.seen
                     /\ sampleTags' = st.tags
                     /\ hist' = [hist EXCEPT !.pollFailed = FALSE]
         ELSE LET st == PollCatch([bd |-> betData, seen |-> lastSeenDeployed,
                                   tags |-> sampleTags])
              IN  /\ betData' = st.bd
                  /\ lastSeenDeployed' = st.seen
                  /\ sampleTags' = st.tags
                  /\ hist' = [hist EXCEPT !.pollFailed = TRUE]
    /\ UNCHANGED <<config, shutdownVars, inFlight, ledgerVars, mainVars, lastTx,
                   bidAttempts, currentRoundId, subscriptionId, pollingInterval,
                   registered,
                   baselineFetch, handler>>

\* lines 193-198: the baseline reply arrives, or the fetch throws
BaselineReply ==
    /\ exitCode = None
    /\ baselineFetch # None
    /\ baselineFetch' = None
    /\ \E ok \in BOOLEAN :
         IF ok /\ RoundAccount(Get(baselineFetch)) # NotFound
         THEN lastSeenDeployed' = Get(RoundAccount(Get(baselineFetch))).deployed
         ELSE UNCHANGED lastSeenDeployed
    /\ UNCHANGED <<config, shutdownVars, inFlight, ledgerVars, mainVars,
                   histVars, currentRoundId, betData, subscriptionId,
                   pollingInterval, registered, pollFetch, handler, sampleTags>>

\* lines 139-181 up to the first await, for a notification whose logs.err
\* is set (err) or whose logs.logs are `lines`
NotifyStep(err, lines) ==
    IF err
    THEN UNCHANGED <<betData, sampleTags, handler>>
    ELSE RunHandler(lines, currentRoundId)

\* the onLogs callback, lines 135-186, up to its first await, for the
\* notifications of `notes`
NotifyOf(notes) ==
    /\ exitCode = None
    /\ subscriptionId = "sub"
    /\ handler = None
    /\ Len(betData.allBets) < MaxSamples
    /\ \E err \in BOOLEAN, lines \in notes : NotifyStep(err, lines)
    /\ UNCHANGED <<config, shutdownVars, inFlight, ledgerVars, mainVars,
                   histVars, currentRoundId, lastSeenDeployed, subscriptionId,
                   pollingInterval, registered, pollFetch, baselineFetch>>

Notify == NotifyOf(Notifications)

\* the same callback for every kind of captured text
NotifyParsed == NotifyOf(ParsedNotifications)

\* lines 170-181: fetchBettorAddress returns (it never throws) and the
\* handler goes on with the log lines that are left
HandlerResume ==
    /\ exitCode = None
    /\ handler # None
    /\ Len(betData.allBets) < MaxSamples
    /\ RunHandler(Get(handler).lines, Get(handler).src)
    /\ UNCHANGED <<config, shutdownVars, inFlight, ledgerVars, mainVars,
                   histVars, currentRoundId, lastSeenDeployed, subscriptionId,
                   pollingInterval, registered, pollFetch, baselineFetch>>

(***************************************************************************)
(* index.ts (betTracker.ts 343-452): the bid estimator                     *)
(***************************************************************************)
\* lines 348-357: the first square with the highest total, 0 when all are 0
RECURSIVE TopSquare(_, _, _, _)
TopSquare(d, i, maxDeployed, maxSquareIdx) ==
    IF i >= NumSquares THEN maxSquareIdx
    ELSE IF ToSol(d[i]) > maxDeployed
         THEN TopSquare(d, i + 1, ToSol(d[i]), i)
         ELSE TopSquare(d, i + 1, maxDeployed, maxSquareIdx)

\* 0.001 SOL, line 376
WhaleMinBet == Q

\* a faulty estimate that stops at the average of the top square
calculateTopBetAverage(round) ==
    LET maxSquareIdx == TopSquare(round.deployed, 0, 0, 0)
        squareTotal == ToSol(round.deployed[maxSquareIdx])
        playerCount == round.count[maxSquareIdx]
    IN  IF playerCount = 0 THEN config.minBetPerSquare
        ELSE squareTotal \div playerCount
\* calculateTopBet, lines 343-387
calculateTopBet(round) ==
    LET maxSquareIdx == TopSquare(round.deployed, 0, 0, 0)
        squareTotal == ToSol(round.deployed[maxSquareIdx])
        playerCount == round.count[maxSquareIdx]
        avgBet == IF playerCount > 0 THEN squareTotal \div playerCount ELSE 0
        minBet == Max(WhaleMinBet, config.minBetPerSquare)
        otherPlayersBet == (playerCount - 1) * minBet
    IN  IF playerCount = 0 THEN config.minBetPerSquare
        ELSE IF playerCount = 1 THEN squareTotal
        ELSE Max(avgBet, squareTotal - otherPlayersBet)

\* lines 400-408: the averages of the squares that have players
RECURSIVE SquareAverages(_, _)
SquareAverages(round, i) ==
    IF i >= NumSquares THEN <<>>
    ELSE (IF round.count[i] > 0
          THEN <<ToSol(round.deployed[i]) \div round.count[i]>>
          ELSE <<>>) \o SquareAverages(round, i + 1)

\* a faulty median that takes the upper middle value of an even number
calculateMedianBetUpper(round) ==
    LET allBets == SortAsc(SquareAverages(round, 0))
        mid == Len(allBets) \div 2
    IN  IF Len(allBets) = 0 THEN config.minBetPerSquare
        ELSE allBets[mid + 1]
\* calculateMedianBet, lines 393-427
calculateMedianBet(round) ==
    LET allBets == SortAsc(SquareAverages(round, 0))
        mid == Len(allBets) \div 2
    IN  IF Len(allBets) = 0 THEN config.minBetPerSquare
        ELSE IF Len(allBets) % 2 = 0
             THEN (allBets[mid] + allBets[mid + 1]) \div 2
             ELSE allBets[mid + 1]

\* topBet * (1 + bufferPercent / 100): every target is a multiple of 100 quanta
WithBuffer(topBet) == (topBet \div 100) * (100 + config.bufferPercent)

\* a faulty bet that leaves out the cap of line 438
calculateOurBetNoCap(topBet) ==
    Max(WithBuffer(topBet), config.minBetPerSquare)
calculateOurBet(topBet) ==
    LET targetBet == WithBuffer(topBet)
        raised == Max(targetBet, config.minBetPerSquare)
    IN  Min(raised, config.maxBetPerSquare)

\* line 841: with live data every value but 'max' takes the rank branch
liveStrategy == IF config.bettingStrategy = "max" THEN "max" ELSE "median"
\* lines 858-860: in the fallback every value but 'median' takes
\* calculateTopBet
fallbackStrategy ==
    IF config.bettingStrategy = "median" THEN "median" ELSE "max"

\* main, lines 836-866: the raw target and the branch it comes from, given
\* the Round fetched at line 825 (NotFound when the fetch threw)
BetSelection(round) ==
    IF hasBetData
    THEN IF liveStrategy = "max"
         THEN [branch |-> "liveMax", target |-> getMaxBet,
               bet |-> calculateOurBet(getMaxBet)]
         ELSE [branch |-> "liveRank", target |-> getNthHighestBet(2),
               bet |-> calculateOurBet(getNthHighestBet(2))]
    ELSE IF round # NotFound /\ Get(round).totalDeployed > 0
         THEN IF fallbackStrategy = "median"
              THEN [branch |-> "snapMedian",
                    target |-> calculateMedianBet(Get(round)),
                    bet |-> calculateOurBet(calculateMedianBet(Get(round)))]
              ELSE [branch |-> "snapMax",
                    target |-> calculateTopBet(Get(round)),
                    bet |-> calculateOurBet(calculateTopBet(Get(round)))]
         ELSE [branch |-> "noData", target |-> 0,
               bet |-> config.minBetPerSquare]

(***************************************************************************)
(* The ledger: what the remote program and the other players do            *)
(***************************************************************************)
\* values of Board.endSlot - current slot the clock is observed at: 10.4 s
\* before the close (outside the default snipe window and less than the
\* 10 s sleep of line 898 above its edge), 10 s before it, and after it
SlotGrid == {26, 25, -25}
RoundSlots == CHOOSE g \in SlotGrid : \A h \in SlotGrid : h <= g
LastSlots == CHOOSE g \in SlotGrid : \A h \in SlotGrid : h >= g
NextSlots(t) == CHOOSE g \in SlotGrid : g < t /\ \A h \in SlotGrid : h < t => h <= g

\* amounts other players deploy, in units
StakeAmounts == {1, 2}
\* wallet balances, in mSOL: below, at and above 0.1 SOL
BalanceLevels == {50, 100, 200}
\* rewards of one currency the Miner account may hold, in units
RewardLevels == {0, 1, 2}
MaxReward == CHOOSE g \in RewardLevels : \A h \in RewardLevels : h <= g
\* what a settled round pays, in <<SOL, ORE>>
Winnings == {<<0, 0>>, <<MaxReward, MaxReward>>}

Players(c) == SumUpTo(c, NumSquares - 1)

\* another player deploys a units to square i; the first deploy of a round
\* starts its clock
Stake ==
    /\ IF slotsToEnd = NotStarted THEN TRUE ELSE Get(slotsToEnd) > 0
    /\ Players(count) < others
    /\ \E i \in Squares, a \in StakeAmounts :
         /\ deployed' = [deployed EXCEPT ![i] = @ + a]
         /\ count' = [count EXCEPT ![i] = @ + 1]
    /\ slotsToEnd' = IF slotsToEnd = NotStarted THEN Some(RoundSlots) ELSE slotsToEnd
    /\ UNCHANGED <<config, shutdownVars, inFlight, boardRound, closedRound,
                   miner, automation, balance, others, trackerVars, mainVars,
                   histVars>>

\* the ledger's clock advances
Tick ==
    /\ slotsToEnd # NotStarted
    /\ Get(slotsToEnd) > LastSlots
    /\ slotsToEnd' = Some(NextSlots(Get(slotsToEnd)))
    /\ UNCHANGED <<config, shutdownVars, inFlight, boardRound, deployed,
                   count, closedRound, miner, automation, balance, others,
                   trackerVars, mainVars, histVars>>

\* the round is over and the board moves to the next round
Reset ==
    /\ slotsToEnd # NotStarted
    /\ Get(slotsToEnd) <= 0
    /\ boardRound < MaxRound
    /\ boardRound' = boardRound + 1
    /\ closedRound' = RoundOf(deployed, count)
    /\ deployed' = ZeroSquares
    /\ count' = ZeroSquares
    /\ slotsToEnd' = NotStarted
    /\ UNCHANGED <<config, shutdownVars, inFlight, miner, automation, balance,
                   others, trackerVars, mainVars, histVars>>

(***************************************************************************)
(* Transactions                                                            *)
(***************************************************************************)
Step(op, arg) == [op |-> op, arg |-> arg]
NoTx == [kind |-> "none", steps |-> <<>>, ok |-> FALSE, ctx |-> None]
Tx(kind, steps, ok, ctx) == [kind |-> kind, steps |-> steps, ok |-> ok, ctx |-> ctx]

\* needsCheckpoint (dflow.ts 459-473) on a Miner account as fetched
needsCheckpoint(m) ==
    IF ~m.exists THEN FALSE ELSE m.checkpointId < m.roundId

\* a faulty instruction list that never settles
DeployInstructionsBidOnly(m, amount) == <<Step("bid", amount)>>
\* deploy, lines 505-519: the instructions of the transaction, for the Miner
\* account m fetched at line 509
DeployInstructions(m, amount) ==
    (IF m.exists /\ needsCheckpoint(m)
     THEN <<Step("settle", m.roundId)>> ELSE <<>>)
    \o <<Step("bid", amount)>>

\* a faulty instruction list that claims only strictly above the minimums
ClaimInstructionsAbove(m) ==
    (IF ToSol(m.rewardsSol) > config.minClaimableSol
     THEN <<Step("claimSol", 0)>> ELSE <<>>)
    \o (IF ToOreScale(m.rewardsOre) > config.minClaimableOre
        THEN <<Step("claimOre", 0)>> ELSE <<>>)
\* claimRewards, lines 552-568: the instructions for the Miner account m
ClaimInstructions(m) ==
    (IF ToSol(m.rewardsSol) >= config.minClaimableSol
     THEN <<Step("claimSol", 0)>> ELSE <<>>)
    \o (IF ToOreScale(m.rewardsOre) >= config.minClaimableOre
        THEN <<Step("claimOre", 0)>> ELSE <<>>)

\* rewards > 0 in either currency, lines 770-776 and 791-794
HasRewards(m) == ToSol(m.rewardsSol) > 0 \/ ToOreScale(m.rewardsOre) > 0

\* the Miner account after a checkpoint of its round went through: the round
\* is settled and the rewards it won in either currency are added
Checkpointed(m, wonSol, wonOre) ==
    [m EXCEPT !.checkpointId = m.roundId,
              !.rewardsSol = Min(@ + wonSol, MaxReward),
              !.rewardsOre = Min(@ + wonOre, MaxReward)]

\* the Miner account after a deploy to round r went through
Deployed(m, settle, r) ==
    IF ~m.exists
    THEN [exists |-> TRUE, checkpointId |-> 0, roundId |-> r, rewardsSol |-> 0,
          rewardsOre |-> 0]
    ELSE [m EXCEPT !.checkpointId = IF settle THEN m.roundId ELSE @,
                   !.roundId = r]

\* the Miner account after the claims of `steps` went through
Claimed(m, steps) ==
    [m EXCEPT !.rewardsSol =
                  IF \E k \in 1 .. Len(steps) : steps[k].op = "claimSol" THEN 0 ELSE @,
              !.rewardsOre =
                  IF \E k \in 1 .. Len(steps) : steps[k].op = "claimOre" THEN 0 ELSE @]

(***************************************************************************)
(* index.ts (betTracker.ts 669-914): main                                  *)
(***************************************************************************)
\* const limit = 0.1 (line 679), in mSOL
StartupLimit == 100
\* slots assumed to remain when the round has not started (line 725)
UnstartedSlots == 150
\* 0.4 s per slot (line 726), in tenths of a second
TenthsPerSlot == 4

\* 0.000005 SOL (line 695), in quanta
TransferFee == Q \div 200

\* the loop iteration is over, by the sleep of line 894: hist.detecting
\* tells whether the running iteration is the one that detected the round
IterationOver(h) == [h EXCEPT !.detecting = FALSE]
\* the iteration threw: the catch of lines 896-899 sleeps 10 s
IterationThrown(h) == [h EXCEPT !.detecting = FALSE, !.backoff = TRUE]

\* process.exit(code); h is the history up to there
ExitWith(code, cause, h) ==
    /\ pc' = "exit"
    /\ exitCode' = Some(code)
    /\ hist' = [h EXCEPT !.exitCause = cause]

Exit(code, cause) == ExitWith(code, cause, hist)

\* lines 684-698: the transfers main submits for the assets getAssetsData
\* lists, each a transaction of its own to the address of lines 676-678,
\* which is not the wallet's; the SOL is sent when the balance read at line
\* 694 leaves something above the limit and the fee
StartupTransfers(assets, sendsSol) ==
    (IF "token" \in assets THEN <<Step("transferToken", 0)>> ELSE <<>>)
    \o (IF "nft" \in assets THEN <<Step("transferNft", 0)>> ELSE <<>>)
    \o (IF sendsSol THEN <<Step("transferSol", 0)>> ELSE <<>>)

\* lines 673-702: the wallet is loaded, the balance read and, when it is
\* above the limit, the wallet's tokens, NFTs and SOL are sent away; an
\* error in there is swallowed (line 699)
Startup ==
    /\ pc = "boot"
    /\ \E keyOk \in BOOLEAN, balOk \in BOOLEAN, assetsOk \in BOOLEAN,
          assets \in SUBSET {"token", "nft"}, bal2Ok \in BOOLEAN,
          solOk \in BOOLEAN :
         IF ~keyOk
         THEN Exit(1, "config") /\ UNCHANGED <<balance, lastTx>>
         ELSE IF ~balOk
         THEN Exit(1, "query") /\ UNCHANGED <<balance, lastTx>>
         ELSE /\ pc' = "loop"
              /\ UNCHANGED <<exitCode, hist>>
              /\ IF ToSol(balance) > ToSol(StartupLimit) /\ assetsOk
                 THEN LET solToTransfer ==
                              ToSol(balance) - ToSol(StartupLimit) - TransferFee
                          sendsSol == bal2Ok /\ solToTransfer > 0
                          steps == StartupTransfers(assets, sendsSol)
                      IN  /\ lastTx' = IF steps = <<>> THEN NoTx
                                       ELSE Tx("transfers", steps, solOk,
                                               [round |-> 0])
                          /\ balance' = IF sendsSol /\ solOk THEN StartupLimit
                                        ELSE balance
                 ELSE UNCHANGED <<balance, lastTx>>
    /\ UNCHANGED <<config, shutdownVars, inFlight, boardRound, slotsToEnd,
                   deployed, count, closedRound, miner, automation, others,
                   trackerVars, lastRoundId, hasDeployedThisRound,
                   secondsRemaining, betPerSquare, bidAttempts>>

\* a faulty time to close that is not floored at 0
SecondsRemainingUnfloored(end) ==
    (IF end # NotStarted THEN Get(end) ELSE UnstartedSlots) * TenthsPerSlot
\* lines 722-726: the time to close, in tenths of a second, for a Board
\* whose endSlot is `end` slots after the current slot
SecondsRemaining(end) ==
    LET isRoundActive == end # NotStarted
        slotsRemaining == IF isRoundActive THEN Get(end) ELSE UnstartedSlots
    IN  Max(0, slotsRemaining * TenthsPerSlot)

\* lines 717-743: the board and the slot are read, the time left computed
\* and a new round detected; a query that throws is caught at line 896
LoopHead ==
    /\ pc = "loop"
    /\ isRunning
    /\ lastTx' = NoTx
    /\ \E ok \in BOOLEAN :
         IF ~ok
         THEN /\ hist' = IterationThrown([hist EXCEPT !.decision = None])
              /\ UNCHANGED <<trackerVars, mainVars>>
         ELSE     /\ secondsRemaining' = SecondsRemaining(slotsToEnd)
                  /\ IF boardRound # lastRoundId
                     THEN /\ lastRoundId' = boardRound
                          /\ hasDeployedThisRound' = FALSE
                          /\ startBetTracking(boardRound)
                          /\ pc' = "settle"
                          /\ hist' = [hist EXCEPT !.decision = None,
                                                  !.stillLow = 0,
                                                  !.seenClosed = secondsRemaining' <= 0,
                                                  !.detecting = TRUE,
                                                  !.backoff = FALSE,
                                                  !.processed = 0]
                     ELSE /\ pc' = "snipe"
                          /\ hist' = [hist EXCEPT !.decision = None,
                                                  !.backoff = FALSE]
                          /\ UNCHANGED <<trackerVars, lastRoundId,
                                         hasDeployedThisRound>>
                  /\ UNCHANGED <<betPerSquare, exitCode>>
    /\ UNCHANGED <<config, shutdownVars, inFlight, ledgerVars, bidAttempts>>

\* lines 746-781: the checkpoint of the round the miner deployed to, and the
\* decision to claim
Settle ==
    /\ pc = "settle"
    /\ \E fetchOk \in BOOLEAN :
         IF ~fetchOk
         THEN pc' = "loop" /\ hist' = IterationThrown(hist) /\ UNCHANGED <<miner, lastTx>>
         ELSE IF ~miner.exists
         THEN pc' = "balance" /\ UNCHANGED <<miner, lastTx, hist>>
         ELSE IF ~(miner.checkpointId < miner.roundId)
         THEN /\ pc' = IF config.claimEveryRound /\ HasRewards(miner)
                       THEN "claim" ELSE "balance"
              /\ UNCHANGED <<miner, lastTx, hist>>
         ELSE \E sendOk \in BOOLEAN, refetchOk \in BOOLEAN, won \in Winnings :
                LET after == IF sendOk THEN Checkpointed(miner, won[1], won[2])
                             ELSE miner
                    view == IF sendOk /\ refetchOk THEN after ELSE miner
                IN  /\ miner' = after
                    /\ lastTx' = Tx("checkpoint",
                                    <<Step("settle", miner.roundId)>>, sendOk,
                                    [round |-> lastRoundId])
                    /\ pc' = IF config.claimEveryRound /\ HasRewards(view)
                             THEN "claim" ELSE "balance"
                    /\ UNCHANGED hist
    /\ UNCHANGED <<config, shutdownVars, inFlight, boardRound, slotsToEnd,
                   deployed, count, closedRound, automation, balance, others,
                   trackerVars, lastRoundId, hasDeployedThisRound,
                   secondsRemaining, betPerSquare, exitCode, bidAttempts>>

\* claimRewards, lines 543-626; it throws nothing.  hist.claim is what it
\* logs: the fetch failed, no Miner account, nothing to claim, a dry run, or
\* the transaction sent
claimRewards(next) ==
    /\ pc' = next
    /\ \E fetchOk \in BOOLEAN :
         IF ~fetchOk
         THEN /\ hist' = [hist EXCEPT !.claim = "failed"]
              /\ lastTx' = NoTx
              /\ UNCHANGED <<miner, balance>>
         ELSE IF ~miner.exists
         THEN /\ hist' = [hist EXCEPT !.claim = "nominer"]
              /\ lastTx' = NoTx
              /\ UNCHANGED <<miner, balance>>
         ELSE IF Len(ClaimInstructions(miner)) = 0
         THEN /\ hist' = [hist EXCEPT !.claim = "nothing"]
              /\ lastTx' = NoTx
              /\ UNCHANGED <<miner, balance>>
         ELSE IF config.dryRun
         THEN /\ hist' = [hist EXCEPT !.claim = "dry"]
              /\ lastTx' = NoTx
              /\ UNCHANGED <<miner, balance>>
         ELSE \E sendOk \in BOOLEAN, newBalance \in BalanceLevels :
                LET instructions == ClaimInstructions(miner)
                IN  /\ newBalance >= balance
                    /\ hist' = [hist EXCEPT !.claim = "sent"]
                    /\ lastTx' = Tx("claim", instructions, sendOk,
                                    [sol |-> miner.rewardsSol,
                                     ore |-> miner.rewardsOre,
                                     swap |-> sendOk /\ config.autoSwapOre
                                              /\ ToOreScale(miner.rewardsOre) > 0])
                    /\ miner' = IF sendOk THEN Claimed(miner, instructions)
                                ELSE miner
                    /\ balance' = IF sendOk THEN newBalance ELSE balance
    /\ UNCHANGED <<config, shutdownVars, inFlight, boardRound, slotsToEnd,
                   deployed, count, closedRound, automation, others,
                   trackerVars, lastRoundId, hasDeployedThisRound,
                   secondsRemaining, betPerSquare, exitCode, bidAttempts>>

\* line 777
Claim == pc = "claim" /\ claimRewards("balance")

\* lines 784-794 and 806-811: the balance check, and the decision to claim
Balance ==
    /\ pc = "balance"
    /\ \E balOk \in BOOLEAN :
         IF ~balOk
         THEN /\ pc' = "loop"
              /\ hist' = IterationThrown([hist EXCEPT !.claim = "none"])
              /\ UNCHANGED hasDeployedThisRound
         ELSE IF ToSol(balance) < config.minWalletBalance
         THEN \E minerOk \in BOOLEAN :
              IF ~minerOk
              THEN /\ pc' = "loop"
                   /\ hist' = IterationThrown([hist EXCEPT !.claim = "none"])
                   /\ UNCHANGED hasDeployedThisRound
              ELSE IF miner.exists /\ HasRewards(miner)
              THEN /\ pc' = "recover"
                   /\ hist' = [hist EXCEPT !.claim = "none"]
                   /\ UNCHANGED hasDeployedThisRound
              ELSE /\ hasDeployedThisRound' = TRUE
                   /\ hist' = [hist EXCEPT !.claim = "none",
                                           !.stillLow = lastRoundId,
                                           !.processed = lastRoundId]
                   /\ pc' = "snipe"
         ELSE /\ pc' = "snipe"
              /\ hist' = [hist EXCEPT !.claim = "none",
                                      !.processed = lastRoundId]
              /\ UNCHANGED hasDeployedThisRound
    /\ lastTx' = NoTx
    /\ UNCHANGED <<config, shutdownVars, inFlight, ledgerVars, trackerVars,
                   lastRoundId, secondsRemaining, betPerSquare, exitCode,
                   bidAttempts>>

\* line 796
Recover == pc = "recover" /\ claimRewards("recheck")

\* lines 798-811: the balance is read again after the recovery claim
Recheck ==
    /\ pc = "recheck"
    /\ lastTx' = NoTx
    /\ \E balOk \in BOOLEAN :
         LET h == [hist EXCEPT !.claim = "none",
                               !.stillLow =
                                   IF ToSol(balance) < config.minWalletBalance
                                   THEN lastRoundId ELSE @]
         IN  IF ~balOk
             THEN /\ pc' = "loop"
                  /\ hist' = IterationThrown(h)
                  /\ UNCHANGED hasDeployedThisRound
             ELSE /\ hist' = [h EXCEPT !.processed = lastRoundId]
                  /\ pc' = "snipe"
                  /\ hasDeployedThisRound' =
                         IF ToSol(balance) < config.minWalletBalance THEN TRUE
                         ELSE hasDeployedThisRound
    /\ UNCHANGED <<config, shutdownVars, inFlight, ledgerVars, trackerVars,
                   lastRoundId, secondsRemaining, betPerSquare, exitCode,
                   bidAttempts>>

\* a faulty test that lets a round with no time left be bid on
inSnipeWindowNoFloor == secondsRemaining <= config.snipeWindowSeconds * 10
\* a faulty test that leaves out the first instant of the window
inSnipeWindowStrict ==
    /\ secondsRemaining < config.snipeWindowSeconds * 10
    /\ secondsRemaining > 0
\* line 816
inSnipeWindow ==
    /\ secondsRemaining <= config.snipeWindowSeconds * 10
    /\ secondsRemaining > 0

\* lines 816-866 and 885-894: the snipe test and the choice of the bet
Snipe ==
    /\ pc = "snipe"
    /\ IF inSnipeWindow /\ ~hasDeployedThisRound
       THEN \E roundOk \in BOOLEAN :
              LET round == IF roundOk THEN RoundAccount(lastRoundId) ELSE NotFound
                  sel == BetSelection(round)
              IN  /\ betPerSquare' = sel.bet
                  /\ hist' = [hist EXCEPT !.decision =
                                Some([branch |-> sel.branch, target |-> sel.target,
                                      bet |-> sel.bet,
                                      samples |-> Len(betData.allBets)])]
                  /\ pc' = "commit"
       ELSE /\ pc' = "loop"
            /\ hist' = IterationOver(hist)
            /\ UNCHANGED betPerSquare
    /\ UNCHANGED <<config, shutdownVars, inFlight, ledgerVars, trackerVars,
                   lastRoundId, hasDeployedThisRound, secondsRemaining,
                   exitCode, lastTx, bidAttempts>>

\* a close whose failure is not caught and ends the iteration
AfterCloseAbort(closeOk) == IF closeOk THEN "deploy" ELSE "loop"
\* lines 872-883: a failure of the close is caught and logged at lines
\* 877-879, and deploy is called at line 883 either way
AfterClose(closeOk) == "deploy"

\* lines 868-880: an Automation account that exists is closed
Commit ==
    /\ pc = "commit"
    /\ \E fetchOk \in BOOLEAN :
         IF ~fetchOk
         THEN /\ pc' = "loop"
              /\ betPerSquare' = 0
              /\ lastTx' = NoTx
              /\ hist' = IterationThrown(hist)
              /\ UNCHANGED automation
         ELSE /\ UNCHANGED betPerSquare
              /\ IF automation
                 THEN \E closeOk \in BOOLEAN :
                        /\ lastTx' = Tx("close", <<Step("close", 0)>>, closeOk,
                                        [round |-> lastRoundId])
                        /\ automation' = ~closeOk
                        /\ pc' = AfterClose(closeOk)
                        /\ hist' = IF AfterClose(closeOk) = "deploy" THEN hist
                                   ELSE IterationThrown(hist)
                 ELSE /\ lastTx' = NoTx
                      /\ pc' = "deploy"
                      /\ UNCHANGED <<automation, hist>>
    /\ UNCHANGED <<config, shutdownVars, inFlight, boardRound, slotsToEnd,
                   deployed, count, closedRound, miner, balance, others,
                   trackerVars, lastRoundId, hasDeployedThisRound,
                   secondsRemaining, exitCode, bidAttempts>>

\* a faulty marking that lets a rejected bid be retried
MarkDeployedOnSuccess(success) == success
\* line 884: the round is marked as bid on whatever deploy returned
MarkDeployed(success) == TRUE

\* deploy, lines 505-522, up to the await of solanaConfirm (dflow.ts 506):
\* the transaction is signed and handed to the network
DeploySend ==
    /\ pc = "deploy"
    /\ ~config.dryRun
    /\ ~inFlight
    /\ inFlight' = TRUE
    /\ UNCHANGED <<config, shutdownVars, ledgerVars, trackerVars, mainVars,
                   histVars>>

\* deploy, lines 498-538, and line 884
Deploy ==
    /\ pc = "deploy"
    /\ pc' = "loop"
    /\ inFlight' = FALSE
    /\ betPerSquare' = 0
    /\ bidAttempts' = [bidAttempts EXCEPT ![lastRoundId] = Min(@ + 1, 2)]
    /\ IF config.dryRun
       THEN /\ hasDeployedThisRound' = MarkDeployed(TRUE)
            /\ lastTx' = NoTx
            /\ UNCHANGED <<miner, balance>>
       ELSE \E queriesOk \in BOOLEAN :
              IF ~queriesOk
              THEN /\ ~inFlight
                   /\ hasDeployedThisRound' = MarkDeployed(FALSE)
                   /\ lastTx' = NoTx
                   /\ UNCHANGED <<miner, balance>>
              ELSE \E sendOk \in BOOLEAN, newBalance \in BalanceLevels :
                     LET instructions == DeployInstructions(miner, betPerSquare)
                     IN  /\ newBalance <= balance
                         /\ hasDeployedThisRound' = MarkDeployed(sendOk)
                         /\ lastTx' =
                                Tx("deploy", instructions, sendOk,
                                   [round |-> lastRoundId,
                                    target |-> boardRound,
                                    miner |-> miner,
                                    bet |-> betPerSquare])
                         /\ miner' = IF sendOk
                                     THEN Deployed(miner, Len(instructions) = 2,
                                                   boardRound)
                                     ELSE miner
                         /\ balance' = IF sendOk THEN newBalance ELSE balance
    /\ hist' = IterationOver(hist)
    /\ UNCHANGED <<config, shutdownVars, boardRound, slotsToEnd, deployed, count,
                   closedRound, automation, others, trackerVars, lastRoundId,
                   secondsRemaining, exitCode>>

\* line 716 and line 903: the loop ends once the handler has cleared
\* isRunning, and main exits the process
LoopExit ==
    /\ pc = "loop"
    /\ ~isRunning
    /\ Exit(0, "loopEnd")
    /\ UNCHANGED <<config, shutdownVars, inFlight, ledgerVars, trackerVars,
                   lastRoundId, hasDeployedThisRound, secondsRemaining,
                   betPerSquare, lastTx, bidAttempts>>

(***************************************************************************)
(* index.ts (betTracker.ts 316-328): the SIGINT handler, and               *)
(* stopBetTracking (betTracker.ts 211-224)                                 *)
(***************************************************************************)
\* lines 317-324 and 212-214: a signal arrives.  A second signal returns at
\* line 318.  The first one clears isRunning and calls stopBetTracking,
\* which awaits removeOnLogsListener when there is a subscription; when
\* there is none it clears the timer and returns, and line 327 exits
Sigint ==
    /\ exitCode = None
    /\ LET h == [hist EXCEPT !.interrupts = Min(@ + 1, 2)]
       IN  IF isShuttingDown
           THEN /\ hist' = h
                /\ UNCHANGED <<shutdownVars, subscriptionId, pollingInterval,
                               registered, pc, exitCode>>
           ELSE /\ isShuttingDown' = TRUE
                /\ isRunning' = FALSE
                /\ IF subscriptionId # "null"
                   THEN /\ shutdown' = "unsubscribing"
                        /\ hist' = [h EXCEPT !.unsubscribes = @ + 1]
                        /\ UNCHANGED <<subscriptionId, pollingInterval,
                                       registered, pc, exitCode>>
                   ELSE /\ pollingInterval' = "null"
                        /\ timers' = clearInterval
                        /\ UNCHANGED listeners
                        /\ ExitWith(0, "sigint", h)
                        /\ UNCHANGED <<shutdown, subscriptionId>>
    /\ UNCHANGED <<config, inFlight, ledgerVars, currentRoundId, betData,
                   lastSeenDeployed, pollFetch, baselineFetch, handler,
                   sampleTags, lastRoundId, hasDeployedThisRound,
                   secondsRemaining, betPerSquare, lastTx, bidAttempts>>

\* lines 215-223 and 326-327: removeOnLogsListener has returned; the
\* subscription id and the timer are cleared and the process exits
SigintResume ==
    /\ exitCode = None
    /\ shutdown = "unsubscribing"
    /\ shutdown' = "idle"
    /\ subscriptionId' = "null"
    /\ listeners' = listeners - 1
    /\ timers' = clearInterval
    /\ pollingInterval' = "null"
    /\ Exit(0, "sigint")
    /\ UNCHANGED <<config, inFlight, isRunning, isShuttingDown, ledgerVars,
                   currentRoundId, betData, lastSeenDeployed, pollFetch,
                   baselineFetch, handler, sampleTags, lastRoundId,
                   hasDeployedThisRound, secondsRemaining, betPerSquare, lastTx,
                   bidAttempts>>

(***************************************************************************)
(* The specification                                                       *)
(***************************************************************************)
\* what is recorded of a run beside the program's state: why the process
\* exited, the last bet decision, what claimRewards logged, the round skipped
\* for its balance, whether the round was first seen closed, whether the
\* running iteration detected it, whether the last iteration ended in the
\* catch of line 896, whether the last poll reply was a failure, how many
\* signals arrived and how often removeOnLogsListener was called, and the
\* round whose round-change block (lines 729-813) has run to its end
NoHistory ==
    [exitCause |-> "none", decision |-> None, claim |-> "none", stillLow |-> 0,
     seenClosed |-> FALSE, detecting |-> FALSE, backoff |-> FALSE,
     pollFailed |-> FALSE, interrupts |-> 0, unsubscribes |-> 0,
     processed |-> 0]

SettledMiner ==
    [exists |-> TRUE, checkpointId |-> 0, roundId |-> 0, rewardsSol |-> 0,
     rewardsOre |-> 0]

\* the state after the module bodies have run and before main is called, for
\* a configuration of cfgs, a Miner account of miners, an Automation account
\* or none (autos), a wallet balance of bals and players other players
InitWith(cfgs, miners, autos, bals, players) ==
    /\ config \in cfgs
    /\ boardRound = 1
    /\ slotsToEnd = NotStarted
    /\ deployed = ZeroSquares
    /\ count = ZeroSquares
    /\ closedRound = RoundOf(ZeroSquares, ZeroSquares)
    /\ miner \in miners
    /\ automation \in autos
    /\ balance \in bals
    /\ others \in players
    /\ currentRoundId = 0
    /\ betData = EmptyBetData
    /\ lastSeenDeployed = ZeroSquares
    /\ subscriptionId = "null"
    /\ pollingInterval = "null"
    /\ listeners = 0
    /\ timers = 0
    /\ pollFetch = None
    /\ baselineFetch = None
    /\ handler = None
    /\ sampleTags = <<>>
    /\ pc = "boot"
    /\ lastRoundId = 0
    /\ hasDeployedThisRound = FALSE
    /\ secondsRemaining = 0
    /\ betPerSquare = 0
    /\ exitCode = None
    /\ inFlight = FALSE
    /\ isRunning = TRUE
    /\ isShuttingDown = FALSE
    /\ shutdown = "idle"
    /\ lastTx = NoTx
    /\ bidAttempts = [r \in Rounds |-> 0]
    /\ hist = NoHistory

Init ==
    InitWith(Configs, {Absent, SettledMiner}, BOOLEAN, BalanceLevels,
             1 .. MaxPlayers)

Main ==
    \/ Startup \/ LoopHead \/ Settle \/ Claim \/ Balance \/ Recover \/ Recheck
    \/ Snipe \/ Commit \/ Deploy

Tracker == PollTick \/ PollReply \/ BaselineReply \/ Notify \/ HandlerResume

Ledger == Stake \/ Tick \/ Reset

Next == Main \/ Tracker \/ Ledger

Spec == Init /\ [][Next]_vars

(***************************************************************************)
(* The scheduler under failing queries and rejected transactions, for      *)
(* every configuration, with the tracker's two producers quiet             *)
(***************************************************************************)
SchedulerConfigs == {c \in Configs : c.bettingStrategy = "max"}

InitScheduler ==
    InitWith(SchedulerConfigs, {Absent, SettledMiner}, BOOLEAN, BalanceLevels, {1})

NextScheduler == Main \/ BaselineReply \/ Ledger

SpecScheduler == InitScheduler /\ [][NextScheduler]_vars

(***************************************************************************)
(* The tracker next to the scheduler and the ledger: a wallet with no      *)
(* Miner and no Automation account whose balance is below the floor, so    *)
(* that the scheduler resets the tracker at every round and never bids     *)
(***************************************************************************)
LowBalances == {b \in BalanceLevels : ToSol(b) < DefaultConfig.minWalletBalance}

InitTracker == InitWith({DefaultConfig}, {Absent}, {FALSE}, LowBalances, {1})

NextTracker ==
    \/ Startup \/ LoopHead \/ Settle \/ Balance \/ Snipe
    \/ Tracker \/ Ledger

SpecTracker == InitTracker /\ [][NextTracker]_vars

(***************************************************************************)
(* Round-start processing for a wallet that comes with a Miner account     *)
(* holding rewards of every level, in a round nobody has deployed to yet   *)
(***************************************************************************)
RewardedMiners ==
    {[SettledMiner EXCEPT !.rewardsSol = s, !.rewardsOre = o] :
        s \in RewardLevels, o \in RewardLevels}

InitRoundStart ==
    InitWith(SchedulerConfigs, RewardedMiners, {FALSE}, BalanceLevels, {1})

NextRoundStart ==
    \/ Startup \/ LoopHead \/ Settle \/ Claim \/ Balance \/ Recover \/ Recheck
    \/ Snipe \/ BaselineReply

SpecRoundStart == InitRoundStart /\ [][NextRoundStart]_vars

(***************************************************************************)
(* The bid of one round: the round is open and in the snipe window, the    *)
(* tracker is running with its cursor at zero, and the producers record    *)
(* while the scheduler chooses its bet, for every snapshot of Snapshots    *)
(* and every configuration of EstimatorConfigs                             *)
(***************************************************************************)
\* totals of a square in the snapshot, in units: none, 0.001 SOL, 0.2 SOL
SnapshotUnits == {0, 1, 200}

Snapshots ==
    {RoundOf(d, c) : d \in [Squares -> SnapshotUnits],
                     c \in [Squares -> 0 .. MaxPlayers]}

\* BUFFER_PERCENT=10 MIN_BET_PER_SQUARE=0.0001 MAX_BET_PER_SQUARE=0.01
ExampleConfig == [DefaultConfig EXCEPT !.maxBetPerSquare = 10 * Q]
\* MIN_BET_PER_SQUARE=0.002 MAX_BET_PER_SQUARE=0.001: the loader accepts it
InvertedConfig ==
    [DefaultConfig EXCEPT !.minBetPerSquare = 2 * Q, !.maxBetPerSquare = Q]

EstimatorConfigs ==
    {[c EXCEPT !.bettingStrategy = s] :
        c \in {DefaultConfig, ExampleConfig, InvertedConfig},
        s \in {"max", "median"}}

\* the Round accounts in which a square has stake exactly when it has
\* players, each of them with at least one unit
PlayedSnapshots ==
    {snapshot \in Snapshots :
        \A i \in Squares :
          /\ (snapshot.deployed[i] = 0) = (snapshot.count[i] = 0)
          /\ snapshot.count[i] <= snapshot.deployed[i]}

InitEstimatorWith(cfgs, snapshots) ==
    /\ config \in cfgs
    /\ boardRound = 1
    /\ slotsToEnd = Some(NextSlots(RoundSlots))
    /\ \E snapshot \in snapshots :
         /\ deployed = snapshot.deployed
         /\ count = snapshot.count
         /\ others = Players(snapshot.count)
    /\ closedRound = RoundOf(ZeroSquares, ZeroSquares)
    /\ miner = Absent
    /\ automation = FALSE
    /\ balance = StartupLimit
    /\ currentRoundId = 1
    /\ betData = EmptyBetData
    /\ lastSeenDeployed = ZeroSquares
    /\ subscriptionId = "sub"
    /\ pollingInterval = "timer"
    /\ listeners = 1
    /\ timers = 1
    /\ pollFetch = None
    /\ baselineFetch = None
    /\ handler = None
    /\ sampleTags = <<>>
    /\ pc = "loop"
    /\ lastRoundId = 1
    /\ hasDeployedThisRound = FALSE
    /\ secondsRemaining = UnstartedSlots * TenthsPerSlot
    /\ betPerSquare = 0
    /\ exitCode = None
    /\ inFlight = FALSE
    /\ isRunning = TRUE
    /\ isShuttingDown = FALSE
    /\ shutdown = "idle"
    /\ lastTx = NoTx
    /\ bidAttempts = [r \in Rounds |-> 0]
    /\ hist = NoHistory

InitEstimator == InitEstimatorWith(EstimatorConfigs, PlayedSnapshots)

NextEstimator ==
    \/ LoopHead \/ Snipe \/ Commit \/ Deploy
    \/ PollTick \/ PollReply \/ Notify \/ HandlerResume

SpecEstimator == InitEstimator /\ [][NextEstimator]_vars

(***************************************************************************)
(* The same round for every Round account fetchRound can decode: the       *)
(* decoder reads deployed and count from separate offsets and relates      *)
(* them in no way, so a square may show stake and no player                *)
(***************************************************************************)
DecodedConfigs ==
    {[DefaultConfig EXCEPT !.bettingStrategy = s] : s \in {"max", "median"}}

InitEstimatorDecoded == InitEstimatorWith(DecodedConfigs, Snapshots)

SpecEstimatorDecoded == InitEstimatorDecoded /\ [][NextEstimator]_vars

(***************************************************************************)
(* The same round for every kind of BETTING_STRATEGY: getEnv (line 1191)   *)
(* returns the variable's text as it is, so besides 'max' and 'median' the *)
(* configuration can hold any other string, such as 'MAX'                  *)
(***************************************************************************)
StrategyConfigs ==
    {[DefaultConfig EXCEPT !.bettingStrategy = s] :
        s \in {"max", "median", "MAX"}}

InitStrategy == InitEstimatorWith(StrategyConfigs, PlayedSnapshots)

SpecStrategy == InitStrategy /\ [][NextEstimator]_vars

(***************************************************************************)
(* The scheduler under SIGINT: a wallet at the startup limit with no Miner *)
(* and no Automation account; the signal may arrive at any await of main,  *)
(* of the handler itself and of the bid's submission.  The ledger is       *)
(* followed for as long as the process runs                                *)
(***************************************************************************)
InitShutdown ==
    InitWith({DefaultConfig}, {Absent}, {FALSE}, {StartupLimit}, {1})

NextShutdown ==
    \/ Main \/ LoopExit \/ DeploySend
    \/ Sigint \/ SigintResume
    \/ BaselineReply
    \/ (exitCode = None /\ Ledger)

SpecShutdown == InitShutdown /\ [][NextShutdown]_vars

(***************************************************************************)
(* The event path alone, in the first round the scheduler tracks, for      *)
(* every kind of notification                                              *)
(***************************************************************************)
NextEvents ==
    \/ Startup \/ LoopHead \/ Settle \/ Balance \/ Snipe
    \/ NotifyParsed \/ HandlerResume

SpecEvents == InitTracker /\ [][NextEvents]_vars

(***************************************************************************)
(* The scheduler against the clock.  POLL_INTERVAL_MS (2 s by default) is  *)
(* shorter than the snipe window (10 s): the clock does not leave a value  *)
(* main has not read, except while main awaits the confirmation of a       *)
(* settlement or inside claimRewards, and except over the 10 s sleep of    *)
(* line 898 when main's last reading was no more than that sleep and one   *)
(* slot before the close.  main goes on whenever it can, and it is not     *)
(* made to throw for ever; the other players start every round and the     *)
(* clock and the board go on                                               *)
(***************************************************************************)
\* main has read the clock at its present value
ClockSampled ==
    /\ lastRoundId = boardRound
    /\ secondsRemaining = SecondsRemaining(slotsToEnd)

\* sleep(10000), line 898, in tenths of a second
BackoffTenths == 100

\* main sleeps at line 898, and its last reading of this round's clock was
\* at most the length of that sleep and one slot before the close
BackoffCoversRound ==
    /\ pc = "loop"
    /\ hist.backoff
    /\ lastRoundId = boardRound
    /\ secondsRemaining <= BackoffTenths + TenthsPerSlot

\* main awaits sendAndConfirm for the checkpoint of line 757, or is inside
\* claimRewards (lines 777 and 796)
SubmissionPending ==
    \/ pc = "settle" /\ needsCheckpoint(miner)
    \/ pc \in {"claim", "recover"}

Blocked == SubmissionPending \/ BackoffCoversRound

PacedTick == (ClockSampled \/ Blocked) /\ Tick

InitCadence ==
    InitWith({DefaultConfig}, {Absent}, {FALSE}, {StartupLimit}, {1})

NextCadence == Main \/ BaselineReply \/ Stake \/ PacedTick \/ Reset

SpecCadence ==
    /\ InitCadence
    /\ [][NextCadence]_vars
    /\ WF_vars(Main /\ ~hist'.backoff)
    /\ WF_vars(Stake)
    /\ WF_vars(PacedTick)
    /\ WF_vars(Reset)

(***************************************************************************)
(* The properties                                                          *)
(***************************************************************************)
HasStep(tx, op) == \E k \in 1 .. Len(tx.steps) : tx.steps[k].op = op

\* C1: every transaction the program has submitted is made of settle, bid,
\* claim-SOL, claim-ORE and close-automation steps only; none transfers the
\* wallet's SOL, tokens or NFTs away.  (Refuted: see Startup.)
OnlyGameOperations ==
    /\ lastTx.kind \in {"none", "checkpoint", "deploy", "claim", "close"}
    /\ \A k \in 1 .. Len(lastTx.steps) :
         lastTx.steps[k].op \in {"settle", "bid", "claimSol", "claimOre", "close"}

\* C2: for every round id the scheduler calls deploy at most once, whether
\* the submission succeeded or not.
OneBidPerRound == \A r \in Rounds : bidAttempts[r] <= 1

\* a bid was rejected, and the round it was for is still open
RejectedBidRoundStillOpen ==
    /\ lastTx.kind = "deploy"
    /\ ~lastTx.ok
    /\ bidAttempts[lastRoundId] = 1
    /\ boardRound = lastRoundId
    /\ slotsToEnd = Some(NextSlots(RoundSlots))

\* C3: after the reset of a round-id change, every sample in the store comes
\* from an observation made for the current round.  (Refuted: a poll reply
\* or a suspended handler of the previous round records after the reset.)
SamplesOfCurrentRound ==
    \A k \in 1 .. Len(sampleTags) : sampleTags[k].src = currentRoundId

SetMax(S) == IF S = {} THEN 0 ELSE CHOOSE m \in S : \A x \in S : x <= m

\* C4: for every square i, maxBetPerSquare[i] is the largest amount among
\* the samples recorded since the last reset that apply to i (poll samples
\* of square i and all event samples), and 0 when there are none.
MaxIsMaxOfSamples ==
    /\ Len(sampleTags) = Len(betData.allBets)
    /\ \A i \in Squares :
         betData.maxBetPerSquare[i] =
             SetMax({betData.allBets[k] :
                       k \in {j \in 1 .. Len(sampleTags) : i \in sampleTags[j].sqs}})

\* both producers have recorded, the event path first; the poll sample is for
\* one square and is not that square's maximum
BothProducersRecorded ==
    /\ Len(sampleTags) >= 2
    /\ sampleTags[1].sqs = Squares
    /\ sampleTags[Len(sampleTags)].sqs # Squares
    /\ \E i \in sampleTags[Len(sampleTags)].sqs :
         betData.allBets[Len(sampleTags)] < betData.maxBetPerSquare[i]

\* T x (1 + bufferPercent / 100)
Buffered(target) ==
    (target \div 100) * (100 + config.bufferPercent)
        + ((target % 100) * (100 + config.bufferPercent)) \div 100

Clamp(x, lo, hi) == IF x < lo THEN lo ELSE IF x > hi THEN hi ELSE x

\* the bet of decision d is the clamped buffered target, it lies between the
\* configured bounds, and it is the amount handed on to the submission
DecisionClamped(d) ==
    /\ d.bet = Clamp(Buffered(d.target), config.minBetPerSquare,
                     config.maxBetPerSquare)
    /\ config.minBetPerSquare <= d.bet
    /\ d.bet <= config.maxBetPerSquare
    /\ pc \in {"commit", "deploy"} => betPerSquare = d.bet
    /\ lastTx.kind = "deploy" => lastTx.ctx.bet = d.bet

\* bufferPercent=10, minBet=0.0001, maxBet=0.01: a target of 0.2 gives
\* exactly 0.01 and a target of 0 gives exactly 0.0001
ClampExample(d) ==
    (config = ExampleConfig \/
     config = [ExampleConfig EXCEPT !.bettingStrategy = "median"])
        => /\ d.target = ToSol(200) => d.bet = 10 * Q
           /\ d.target = 0 => d.bet = Q \div 10

\* C5, as stated: every bid is clamp(T x (1 + bufferPercent/100), min, max)
\* whichever branch produced T, hence within [min, max].  (Refuted for a
\* configuration whose minimum is above its maximum.)
BidIsClampedTarget ==
    hist.decision # None
        => DecisionClamped(Get(hist.decision)) /\ ClampExample(Get(hist.decision))

\* C5, amended: when minBetPerSquare <= maxBetPerSquare, every bid is
\* clamp(T x (1 + bufferPercent/100), min, max) whichever branch produced T,
\* hence within [min, max]; and the example of the claim holds.
BidIsClampedTargetWhenOrdered ==
    (hist.decision # None /\ config.minBetPerSquare <= config.maxBetPerSquare)
        => DecisionClamped(Get(hist.decision)) /\ ClampExample(Get(hist.decision))

\* the example's capped bid is about to be submitted
ExampleBidCapped ==
    /\ pc = "deploy"
    /\ config = ExampleConfig
    /\ hist.decision # None
    /\ IF hist.decision = None THEN FALSE
       ELSE /\ Get(hist.decision).target = ToSol(200)
            /\ Get(hist.decision).branch = "snapMax"
    /\ betPerSquare = 10 * Q

\* C6: when the store holds a sample at bid time the target comes from the
\* store, never from the snapshot.  (Refuted: samples of the poll path do
\* not count for hasBetData.)
LiveSamplesDecide ==
    hist.decision # None
        => (Get(hist.decision).samples > 0
              => Get(hist.decision).branch \in {"liveMax", "liveRank"})

\* C7: a bid transaction is exactly [bid] when the Miner account owes no
\* settlement and exactly [settle(miner.roundId), bid] when its
\* checkpointId < roundId; no other transaction carries a bid step.
BidSettlesIffOwed ==
    /\ lastTx.kind = "deploy"
         => LET m == lastTx.ctx.miner
                owed == m.exists /\ m.checkpointId < m.roundId
                bid == Step("bid", lastTx.ctx.bet)
            IN  lastTx.steps = IF owed THEN <<Step("settle", m.roundId), bid>>
                               ELSE <<bid>>
    /\ lastTx.kind # "deploy" => ~HasStep(lastTx, "bid")

\* a settlement and a bid went through in one transaction
SettledAndBid ==
    /\ lastTx.kind = "deploy"
    /\ lastTx.ok
    /\ Len(lastTx.steps) = 2

\* C8: the claim transaction has the claim-SOL step iff the claimable SOL is
\* at least minClaimableSol and the claim-ORE step iff the claimable ORE is
\* at least minClaimableOre; when both are below, nothing is submitted and
\* "nothing to claim" is what claimRewards reports.
ClaimStepsMatchMinimums ==
    /\ lastTx.kind = "claim"
         => LET a == ToSol(lastTx.ctx.sol) >= config.minClaimableSol
                b == ToOreScale(lastTx.ctx.ore) >= config.minClaimableOre
            IN  /\ a \/ b
                /\ lastTx.steps =
                       (IF a THEN <<Step("claimSol", 0)>> ELSE <<>>)
                       \o (IF b THEN <<Step("claimOre", 0)>> ELSE <<>>)
                /\ hist.claim = "sent"
    /\ hist.claim = "nothing"
         => /\ lastTx.kind = "none"
            /\ ToSol(miner.rewardsSol) < config.minClaimableSol
            /\ ToOreScale(miner.rewardsOre) < config.minClaimableOre
    /\ hist.claim \in {"sent", "dry"}
         => \/ lastTx.kind = "claim"
            \/ /\ config.dryRun
               /\ lastTx.kind = "none"
               /\ \/ ToSol(miner.rewardsSol) >= config.minClaimableSol
                  \/ ToOreScale(miner.rewardsOre) >= config.minClaimableOre

\* ORE alone was claimed while some SOL, below its minimum, stayed
ClaimedOreOnly ==
    /\ lastTx.kind = "claim"
    /\ lastTx.steps = <<Step("claimOre", 0)>>
    /\ miner.rewardsSol > 0

\* C9: the process stops only on a fatal configuration failure.  (Refuted:
\* the balance query of line 674 is outside the loop's try block.)
OnlyConfigFailureStops == pc = "exit" => hist.exitCause = "config"

\* C10: no bid is submitted for a round at whose start the balance was
\* below the floor and stayed below it after the recovery claim.  (Refuted:
\* when the balance query of line 799 fails the round is not marked.)
NoBidWhileStillLow ==
    lastTx.kind = "deploy" => hist.stillLow # lastTx.ctx.round


\* t is inside the snipe window of the configuration
InWindow(t) == 0 < t /\ t <= config.snipeWindowSeconds * 10

\* C11, as stated: a round first seen with no time left gets no bid attempt
\* and nothing at all is submitted while it is the scheduler's round.
\* (Refuted: the settlement of the previous round and the reward claim are
\* still submitted by the round-start processing.)
ClosedRoundSubmitsNothing ==
    hist.seenClosed
        => /\ bidAttempts[lastRoundId] = 0
           /\ pc \notin {"commit", "deploy"}
           /\ lastTx.kind = "none"

\* C11, amended: a round first seen with no time left never gets a bid
\* attempt nor any step of the commit sequence; the scheduler waits for the
\* next round id.  Only the round-start settlement and claim are submitted.
ClosedRoundGetsNoBid ==
    hist.seenClosed
        => /\ bidAttempts[lastRoundId] = 0
           /\ pc \notin {"commit", "deploy"}
           /\ lastTx.kind \in {"none", "checkpoint", "claim"}

\* a round first seen closed, passed over by a later iteration
SeenClosedAndWaiting ==
    /\ hist.seenClosed
    /\ pc = "loop"
    /\ ~hist.detecting
    /\ ~hasDeployedThisRound
    /\ boardRound = lastRoundId
    /\ slotsToEnd # NotStarted
    /\ secondsRemaining = 0

BidOnlyInsideWindow ==
    [][/\ secondsRemaining' >= 0
       /\ (pc = "loop" /\ pc' \in {"settle", "snipe"})
            => secondsRemaining' =
                 IF slotsToEnd = NotStarted
                 THEN UnstartedSlots * TenthsPerSlot
                 ELSE IF Get(slotsToEnd) < 0 THEN 0
                 ELSE Get(slotsToEnd) * TenthsPerSlot
       /\ (pc' \in {"commit", "deploy"} \/ lastTx'.kind = "deploy")
            => InWindow(secondsRemaining')]_vars

\* a bid was sent in an iteration that computed 10 s to the close
BidSentInsideWindow ==
    /\ lastTx.kind = "deploy"
    /\ secondsRemaining = 25 * TenthsPerSlot


\* a poll reply is being handled
PollReplied == pollFetch # None /\ pollFetch' = None

\* the samples the step records for square i alone
NewSamplesOf(i) ==
    {k \in (Len(sampleTags) + 1) .. Len(sampleTags') : sampleTags'[k].sqs = {i}}

\* the poll reply records, for every square whose fetched total is above
\* the cursor, one sample of Amount(delta) and moves the cursor to the
\* total; it records nothing for a square whose total has not moved
PollStepRecords(Amount(_)) ==
    (PollReplied /\ lastSeenDeployed' # lastSeenDeployed)
        => LET round == Get(RoundAccount(Get(pollFetch)))
           IN  \A i \in Squares :
                 IF round.deployed[i] > lastSeenDeployed[i]
                 THEN /\ Cardinality(NewSamplesOf(i)) = 1
                      /\ \A k \in NewSamplesOf(i) :
                           betData'.allBets[k] =
                               Amount(round.deployed[i] - lastSeenDeployed[i])
                      /\ lastSeenDeployed'[i] = round.deployed[i]
                 ELSE /\ NewSamplesOf(i) = {}
                      /\ round.deployed[i] = lastSeenDeployed[i]
                           => lastSeenDeployed'[i] = lastSeenDeployed[i]

\* C14: a poll reply records exactly one sample per square whose total is
\* above the cursor, of the amount of the increase in the unit of the
\* totals (Number(x) / 1e9), and moves the cursor to the total; a square
\* whose total has not moved records nothing.  (Refuted: the sample is the
\* increase divided by 1e11.)
PollRecordsDelta == [][PollStepRecords(ToSol)]_vars

\* C15: a poll reply records no sample for a square whose fetched total is
\* below the cursor, and no sample of the store is ever negative or zero.
PollRecordsNoDecrease ==
    [][/\ \A k \in 1 .. Len(betData'.allBets) : betData'.allBets[k] > 0
       /\ (PollReplied /\ RoundAccount(Get(pollFetch)) # NotFound)
            => \A i \in Squares :
                 Get(RoundAccount(Get(pollFetch))).deployed[i]
                        < lastSeenDeployed[i]
                   => /\ NewSamplesOf(i) = {}
                      /\ betData'.maxBetPerSquare[i] = betData.maxBetPerSquare[i]]_vars

\* a poll reply of the current round has recorded the increase of one
\* square and passed over another square whose total is below the cursor
PollPassedOverDecrease ==
    /\ pollFetch = None
    /\ currentRoundId = boardRound
    /\ sampleTags # <<>>
    /\ LET last == sampleTags[Len(sampleTags)]
       IN  /\ last.src = currentRoundId
           /\ \E j \in Squares :
                /\ last.sqs = {j}
                /\ lastSeenDeployed[j] = deployed[j]
                /\ \E i \in Squares \ {j} : lastSeenDeployed[i] > deployed[i]


\* the least value of a non-empty sequence
SeqMin(q) == CHOOSE x \in {q[k] : k \in 1 .. Len(q)} :
                 \A k \in 1 .. Len(q) : x <= q[k]

\* C16: rank(0) is maxOverall() when there are samples; rank(n) is the
\* least sample for every n at or beyond the number of samples; and every
\* rank is 0 when there are none.
RankWithinSamples ==
    LET allBets == betData.allBets
    IN  IF Len(allBets) = 0
        THEN \A n \in 0 .. (MaxSamples + 1) : getNthHighestBet(n) = 0
        ELSE /\ getNthHighestBet(0) = getMaxBet
             /\ \A n \in Len(allBets) .. (MaxSamples + 1) :
                  getNthHighestBet(n) = SeqMin(allBets)
             /\ getNthHighestBet(Len(allBets) - 1) = SeqMin(allBets)

\* the store holds samples of different amounts from both producers
RankedDistinctSamples ==
    /\ Len(betData.allBets) >= 2
    /\ getNthHighestBet(0) > getNthHighestBet(1)
    /\ \E k \in 1 .. Len(sampleTags) : sampleTags[k].sqs = Squares
    /\ \E k \in 1 .. Len(sampleTags) : sampleTags[k].sqs # Squares

\* C17 (the store): from the reset of a round change until the first sample
\* observed in the new round is recorded, every read of the store gives
\* zero: the maxima, the samples, their number, maxOverall() and every
\* rank.  (Refuted: a sample observed in the previous round is recorded
\* after the reset.)
ResetReadsZero ==
    (/\ currentRoundId # 0
     /\ \A k \in 1 .. Len(sampleTags) : sampleTags[k].src # currentRoundId)
        => /\ betData = EmptyBetData
           /\ getMaxBet = 0
           /\ \A n \in 0 .. MaxSamples : getNthHighestBet(n) = 0


\* the squares with the highest total of the snapshot
TopSlots == {i \in Squares : \A j \in Squares : deployed[j] <= deployed[i]}

\* the whale among c players of a square holding `total`, when the others
\* are taken to stake minimumStake each, floored at the average
WhaleEstimate(total, c, minimumStake) ==
    IF c = 1 THEN total
    ELSE LET average == total \div c
             remainder == total - (c - 1) * minimumStake
         IN  IF remainder > average THEN remainder ELSE average

\* a Round account whose square 0 holds `total` units of c players
OneSquareRound(total, c) ==
    RoundOf([i \in Squares |-> IF i = 0 THEN total ELSE 0],
            [i \in Squares |-> IF i = 0 THEN c ELSE 0])

\* C18, as stated: the snapshot target of the max strategy is the whale
\* estimate of a square with the highest total, the others staking the
\* configured minimum.  (Refuted: the others are taken to stake 0.001 SOL
\* when the configured minimum is below that.)
TopBetAssumesConfiguredMinimum ==
    (hist.decision # None /\ Get(hist.decision).branch = "snapMax")
        => \E i \in TopSlots :
             Get(hist.decision).target =
                 WhaleEstimate(ToSol(deployed[i]), count[i],
                               config.minBetPerSquare)

\* C18, amended: the snapshot target of the max strategy is the whale
\* estimate of the first square with the highest total, the others staking
\* the larger of 0.001 SOL and the configured minimum; 0.1 SOL of one player
\* gives 0.1, and 0.1 SOL of ten players gives 0.091 when the configured
\* minimum is at most 0.001.
TopBetAssumesFlooredMinimum ==
    /\ (hist.decision # None /\ Get(hist.decision).branch = "snapMax")
         => \E i \in TopSlots :
              /\ \A j \in TopSlots : i <= j
              /\ Get(hist.decision).target =
                     WhaleEstimate(ToSol(deployed[i]), count[i],
                                   IF config.minBetPerSquare > ToSol(1)
                                   THEN config.minBetPerSquare ELSE ToSol(1))
    /\ calculateTopBet(OneSquareRound(100, 1)) = ToSol(100)
    /\ config.minBetPerSquare <= ToSol(1)
         => calculateTopBet(OneSquareRound(100, 10)) = ToSol(91)

\* the target is what is left of the top square of two players when the
\* other one is taken to stake 0.001 SOL
WhaleAmongTwo ==
    /\ hist.decision # None
    /\ IF hist.decision = None THEN FALSE
       ELSE /\ Get(hist.decision).branch = "snapMax"
            /\ \E i \in TopSlots :
                 /\ count[i] = 2
                 /\ Get(hist.decision).target = ToSol(deployed[i]) - ToSol(1)
                 /\ Get(hist.decision).target > ToSol(deployed[i]) \div 2

\* the squares of the snapshot that have players, and their averages
PlayedSlots == {i \in Squares : count[i] >= 1}
AverageOf(i) == ToSol(deployed[i]) \div count[i]
BelowAverage(v) == Cardinality({j \in PlayedSlots : AverageOf(j) < v})
AboveAverage(v) == Cardinality({j \in PlayedSlots : AverageOf(j) > v})

\* the lower and the upper middle value of the averages (the same value
\* when their number is odd)
LowerMiddle ==
    CHOOSE v \in {AverageOf(i) : i \in PlayedSlots} :
        /\ BelowAverage(v) <= (Cardinality(PlayedSlots) - 1) \div 2
        /\ AboveAverage(v) <= Cardinality(PlayedSlots) \div 2
UpperMiddle ==
    CHOOSE v \in {AverageOf(i) : i \in PlayedSlots} :
        /\ BelowAverage(v) <= Cardinality(PlayedSlots) \div 2
        /\ AboveAverage(v) <= (Cardinality(PlayedSlots) - 1) \div 2

TornDownBeforeExit ==
    /\ hist.unsubscribes <= 1
    /\ (pc = "exit" /\ hist.interrupts > 0)
         => /\ exitCode = Some(0)
            /\ subscriptionId = "null"
            /\ pollingInterval = "null"


\* no pattern matches a line of the notification, or every amount its
\* lines capture is <= 0 or not finite
NothingToExtract(lines) ==
    \A k \in 1 .. Len(lines) :
        \A j \in 1 .. Len(lines[k]) :
            lines[k][j] <= 0 \/ lines[k][j] >= Infinity

\* C22: a notification that reports a remote failure, whose text matches no
\* pattern, or whose amounts are <= 0 or not finite leaves maxBetPerSquare,
\* allBets and totalBets as they are.  (Refuted: an amount that parses to
\* Infinity is recorded.)
InvalidNotificationDropped ==
    [][\A err \in BOOLEAN, lines \in ParsedNotifications :
         (/\ err \/ NothingToExtract(lines)
          /\ subscriptionId = "sub"
          /\ handler = None
          /\ NotifyStep(err, lines))
            => UNCHANGED <<betData, sampleTags>>]_vars


\* C23: a sample is recorded whether the address lookup succeeds, fails or
\* never completes, and no sample waits for a lookup: while the handler is
\* suspended in fetchBettorAddress, none of the notification's remaining
\* lines holds an amount still to be recorded.  (Refuted: the lookup is
\* awaited inside the loop over the lines.)
NoSampleWaitsForLookup ==
    handler # None => ScanLines(Get(handler).lines).amount = 0


\* C24: with a loop interval shorter than the snipe window and under
\* fairness, every round first seen with time left, and not skipped for
\* its balance, eventually gets its bid attempt, also when an iteration
\* blocks on settlement, on claiming or on the back-off sleep.  (Refuted:
\* the clock runs through the window while an iteration blocks.)
OpenRoundEventuallyBid ==
    \A r \in Rounds :
        (lastRoundId = r /\ ~hist.seenClosed)
            ~> (bidAttempts[r] > 0 \/ hist.stillLow = r)


(***************************************************************************)
(* C25  A poll tick whose fetch fails changes neither the store nor the    *)
(* cursor, ends nothing, and leaves the timer in place with no tick        *)
(* pending: the next tick can run, against the cursor as it was            *)
(***************************************************************************)
PollFailed == PollReplied /\ hist'.pollFailed

FailedPollChangesNothing ==
    [][PollFailed =>
          /\ betData' = betData
          /\ lastSeenDeployed' = lastSeenDeployed
          /\ sampleTags' = sampleTags
          /\ currentRoundId' = currentRoundId
          /\ exitCode' = None
          /\ pollingInterval' = "timer"
          /\ pollFetch' = None]_vars

\* a tick has failed while the round's totals were above the cursor, and the
\* timer is still armed
FailedPollWithPendingIncrease ==
    /\ hist.pollFailed
    /\ exitCode = None
    /\ pollingInterval = "timer"
    /\ pollFetch = None
    /\ RoundAccount(currentRoundId) # NotFound
    /\ Increases(Get(RoundAccount(currentRoundId))) # {}


(***************************************************************************)
(* C26  At a round change the checkpoint is sent exactly when the Miner    *)
(* account as fetched has checkpointId < roundId, and the round it names   *)
(* is lower than the round the loop has just detected                      *)
(***************************************************************************)
SettleStep == pc = "settle" /\ pc' # "settle"

CheckpointSent == lastTx'.kind = "checkpoint"

CheckpointIffOwedForEarlierRound ==
    [][SettleStep =>
          /\ CheckpointSent => needsCheckpoint(miner)
          /\ (needsCheckpoint(miner) /\ pc' # "loop") => CheckpointSent
          /\ CheckpointSent => lastTx'.steps[1].arg < lastRoundId]_vars


(***************************************************************************)
(* C27  A close of the Automation account is submitted only in the commit  *)
(* of a round, only when the account exists, and before the bid; the bid   *)
(* is attempted next whether the close succeeded or not; with no           *)
(* Automation account the commit submits no close                          *)
(***************************************************************************)
CommitStep == pc = "commit" /\ pc' # "commit"

CloseSubmitted == lastTx'.kind = "close" /\ lastTx' # lastTx

BidAttempted == bidAttempts'[lastRoundId] = Min(bidAttempts[lastRoundId] + 1, 2)

CloseBeforeBid ==
    [][/\ CloseSubmitted => CommitStep /\ automation /\ pc' = "deploy"
       /\ (CommitStep /\ automation /\ pc' # "loop") => CloseSubmitted
       /\ (CommitStep /\ ~automation) => lastTx'.kind # "close"
       /\ (pc = "deploy" /\ pc' # "deploy") => BidAttempted]_vars

\* the close was rejected, the Automation account is still there, and the bid
\* has been sent all the same
BidSentAfterFailedClose ==
    /\ lastTx.kind = "deploy"
    /\ automation
    /\ bidAttempts[lastRoundId] > 0


(***************************************************************************)
(* C28  The process does not exit while a transaction it has sent awaits   *)
(* its confirmation                                                        *)
(***************************************************************************)
NoExitWhilePending == exitCode # None => ~inFlight


(***************************************************************************)
(* C29  While the tracker stays on one round, no step lowers the cursor of *)
(* any square                                                              *)
(***************************************************************************)
CursorNeverDecreasesInRound ==
    [][currentRoundId' = currentRoundId
          => \A i \in Squares : lastSeenDeployed'[i] >= lastSeenDeployed[i]]_vars


(***************************************************************************)
(* C30  When a poll tick's fetch has succeeded, the cursor of every square *)
(* is the total that was fetched, whether that total is above or below the *)
(* cursor the tick started from                                            *)
(***************************************************************************)
PollSucceeded == PollReplied /\ ~hist'.pollFailed

CursorIsFetchedTotalAfterPoll ==
    [][PollSucceeded =>
          \A i \in Squares :
              lastSeenDeployed'[i]
                  = Get(RoundAccount(Get(pollFetch))).deployed[i]]_vars


(***************************************************************************)
(* C31  A notification records at most one sample, and the sample is what  *)
(* the first matching pattern of a log line captures: a handler that has   *)
(* recorded a sample records no further one for the lines that are left,   *)
(* and every sample recorded is the first capture of some line             *)
(***************************************************************************)
FirstCaptures == {ToSol(Head(l)) : l \in ParsedLines \ {<<>>}}

SampleAdded ==
    /\ Len(betData'.allBets) = Len(betData.allBets) + 1
    /\ SubSeq(betData'.allBets, 1, Len(betData.allBets)) = betData.allBets

OneSampleOfFirstMatch ==
    [][/\ handler # None => ~SampleAdded
       /\ SampleAdded
            => betData'.allBets[Len(betData'.allBets)] \in FirstCaptures]_vars


(***************************************************************************)
(* C32  When a bid is submitted, the round the loop decided to bid on has  *)
(* not reached its end slot on the ledger                                  *)
(***************************************************************************)
DecidedRoundEnded ==
    \/ boardRound > lastRoundId
    \/ boardRound = lastRoundId /\ slotsToEnd # NotStarted /\ Get(slotsToEnd) <= 0

BidSubmitted == pc = "deploy" /\ lastTx'.kind = "deploy"

NoBidAfterRoundEnd == [][BidSubmitted => ~DecidedRoundEnded]_vars


(***************************************************************************)
(* C33  totalBets is the number of entries of allBets, so that hasBetData  *)
(* is true exactly when allBets is not empty                               *)
(***************************************************************************)
TotalBetsCountsAllBets ==
    /\ betData.totalBets = Len(betData.allBets)
    /\ hasBetData <=> Len(betData.allBets) > 0


(***************************************************************************)
(* C34  A sample recorded by the poll for an increase of d units of a      *)
(* square's total has the value an event sample or a snapshot estimate has *)
(* for a stake of d units, d / 10^9                                        *)
(***************************************************************************)
PolledIncreases ==
    LET round == Get(RoundAccount(Get(pollFetch)))
    IN  {ToSol(round.deployed[i] - lastSeenDeployed[i]) : i \in Increases(round)}

PollSamplesOnSolScale ==
    [][PollSucceeded =>
          \A k \in (Len(betData.allBets) + 1) .. Len(betData'.allBets) :
              betData'.allBets[k] \in PolledIncreases]_vars


(***************************************************************************)
(* C35  A configured strategy is read the same way with live samples and   *)
(* in the snapshot fallback: a bet taken from the live rank or the live    *)
(* maximum comes from a value the fallback reads as median or max too, and *)
(* the other way round                                                     *)
(***************************************************************************)
SameStrategyInBothBranches ==
    hist.decision # None
        => LET branch == Get(hist.decision).branch
           IN  /\ branch = "liveMax" => fallbackStrategy = "max"
               /\ branch = "liveRank" => fallbackStrategy = "median"
               /\ branch = "snapMax" => liveStrategy = "max"
               /\ branch = "snapMedian" => liveStrategy = "median"


(***************************************************************************)
(* C36  Under DRY_RUN no transaction is submitted: no bid, no checkpoint,  *)
(* no claim, no close, no transfer and no swap                             *)
(***************************************************************************)
DryRunSubmitsNothing == config.dryRun => lastTx = NoTx


(***************************************************************************)
(* C37  Whenever the tracker moves to a round, the first one or a later    *)
(* one, the fetch that sets the cursor to that round's totals is issued    *)
(***************************************************************************)
TrackingBegins == currentRoundId' # currentRoundId

BaselineForEveryRound ==
    [][TrackingBegins => baselineFetch' = Some(currentRoundId')]_vars


(***************************************************************************)
(* C38  A bid is submitted for a round only after the block of the round   *)
(* change (checkpoint, claim, balance check) has run to its end for that   *)
(* round                                                                   *)
(***************************************************************************)
BidOnlyAfterRoundStartProcessing ==
    lastTx.kind = "deploy" => hist.processed = lastTx.ctx.round


(***************************************************************************)
(* C39  At most one onLogs listener and at most one poll interval exist at *)
(* any time, over every round the tracker is started for, and once         *)
(* stopBetTracking has returned there is none                              *)
(***************************************************************************)
OneSubscriptionOneTimer ==
    /\ listeners <= 1
    /\ timers <= 1
    /\ listeners = (IF subscriptionId # "null" THEN 1 ELSE 0)
    /\ timers = (IF pollingInterval # "null" THEN 1 ELSE 0)
    /\ hist.exitCause = "sigint" => listeners = 0 /\ timers = 0

\* the tracker was started for round 1 and again for round 2, then stopped
StoppedAfterSecondRound ==
    /\ hist.exitCause = "sigint"
    /\ hist.unsubscribes = 1
    /\ currentRoundId = 2
    /\ listeners = 0
    /\ timers = 0

=============================================================================
